---- MODULE Spec2Model ----
(***************************************************************************)
(* Model of src/lib.rs: a fixed-size worker pool.  ThreadPool::build       *)
(* creates one mpsc channel, wraps its Receiver in Arc<Mutex<..>> and      *)
(* spawns `size` Workers; every Worker thread runs                         *)
(*     let job = receiver.lock().unwrap().recv().unwrap();                 *)
(*     println!(..); job();                                                *)
(* exactly once.  ThreadPool::execute boxes the closure and sends it.      *)
(***************************************************************************)
EXTENDS Integers, Sequences, FiniteSets, TLC

\* ---------------------------------------------------------------- bounds
MaxSize == 3        \* largest size passed to build
MaxJobs == 4        \* largest number of execute calls in one behaviour

WorkerIds == 0 .. (MaxSize - 1)
JobIds == 1 .. MaxJobs
NoWorker == -1      \* "nobody holds the MutexGuard"
NoJob == 0

\* A job is an opaque FnOnce; all the pool can observe is whether it
\* returns (after bumping the caller's shared counter) or panics.
JobKinds == {"returns", "panics"}

\* ------------------------------------------------------ std::io::Error
\* Errors thread::Builder::spawn can return (EAGAIN, ENOMEM).
IoErrors ==
    { [code |-> 11, kind |-> "WouldBlock",
       message |-> "Resource temporarily unavailable"],
      [code |-> 12, kind |-> "OutOfMemory",
       message |-> "Cannot allocate memory"] }

\* {:?} of an io::Error built from an OS error code:
\*   Os { code: 11, kind: WouldBlock, message: "..." }
\* rendered as the sequence of its pieces, each piece tagged with its role.
DebugIoError(e) ==
    << <<"text", "Os">>,
       <<"code", ToString(e.code)>>,
       <<"kind", e.kind>>,
       <<"message", e.message>> >>

\* PoolCreationError.msg for size == 0 (String::from(..)).
InvalidSizeMsg == << <<"text", "Pool size has to be greater than 0">> >>

\* Variant: the message without the {:?} argument.
SpawnFailureMsg_WithoutReason(id, e) ==
    << <<"text", "Cannot create pool worker: ">> >>

\* PoolCreationError.msg for a failed spawn:
\*   format!("Cannot create pool worker: {:?}", worker_result.unwrap_err())
\* `id` is in scope at the format! call but is not one of its arguments.
SpawnFailureMsg(id, e) ==
    << <<"text", "Cannot create pool worker: ">> >> \o DebugIoError(e)

\* The size new() passes to build (variant: a different literal).
NewSize_Two == 1 + 1
NewSize == 1

\* if size == 0 (variant: the check never fires).
InvalidSize_Never(sz) == sz < 0
InvalidSize(sz) == sz = 0

\* for id in 0..size: the first id (variant: the range starts one late).
FirstId_One == 0 + 1
FirstId == 0

\* workers.push(worker) (variant: the new worker is put in front).
PushWorker_Front(ws, id) == << id >> \o ws
PushWorker(ws, id) == Append(ws, id)

\* mpsc::channel() is the asynchronous, unbounded channel: send never
\* blocks.  (sync_channel(1) would block on a full buffer.)
SendWouldBlock_Sync(q) == Len(q) >= 1
SendWouldBlock(q) == FALSE

VARIABLES
    pc,           \* caller: "idle" | "building" | "returned"
    via,          \* "none" | "build" | "new": the constructor that was called
    size,         \* the argument of build
    nextId,       \* `id` of the for loop in build
    workers,      \* build's local Vec<Worker>, as the sequence of Worker.id
    result,       \* "none" | "Ok" | "Err": what build returned
    errMsg,       \* PoolCreationError.msg when result = "Err"
    pool,         \* <<>> or <<[workers |-> ..]>>: the live ThreadPool value
    callerPanic,  \* "none" | "new-unwrap" | "send-unwrap"
    chanCreated,  \* mpsc::channel() has been called
    senderAlive,  \* the Sender<Job> exists
    arcCount,     \* strong count of the Arc<Mutex<Receiver<Job>>>
    queue,        \* channel buffer: sequence of job ids
    lockHolder,   \* worker holding the MutexGuard, or NoWorker
    poisoned,     \* the Mutex is poisoned
    wstate,       \* per worker thread: its position in the thread body
    wjob,         \* per worker: the job it received, or NoJob
    wexit,        \* per worker: how its thread ended
    nJobs,        \* number of execute calls so far
    jobKind,      \* per job: "none" until created, then a JobKind
    jobStatus,    \* per job: where it is
    runs,         \* per job: number of times it was invoked
    counter,      \* the shared counter the jobs increment
    stdout        \* ids printed by "Worker {id} got a job; executing."

vars == << pc, via, size, nextId, workers, result, errMsg, pool, callerPanic,
           chanCreated, senderAlive, arcCount, queue, lockHolder, poisoned,
           wstate, wjob, wexit, nJobs, jobKind, jobStatus, runs, counter,
           stdout >>

callerVars == << pc, via, size, nextId, workers, result, errMsg, pool,
                 callerPanic >>
jobVars == << nJobs, jobKind >>

PoolAlive == pool # <<>>

\* Variant: the ThreadPool keeps a reference to the Receiver of its own.
ReceiverAlive_PoolOwned == arcCount > 0 \/ PoolAlive
\* Variant: a thread gives up its reference to the Receiver as soon as it
\* has its job, before it calls the job.
ReceiverAlive_UntilJobStarts ==
    \/ pc = "building"
    \/ \E w \in WorkerIds :
          wstate[w] \in {"WaitingForLock", "WaitingForJob", "Dequeued"}
\* The Receiver lives inside the Arc: it exists while a strong ref exists.
ReceiverAlive == arcCount > 0

\* Dropping one strong reference.  When the last one goes the Receiver is
\* dropped and with it every job still buffered in the channel.
DropArc ==
    /\ arcCount' = arcCount - 1
    /\ IF arcCount = 1
       THEN /\ queue' = <<>>
            /\ jobStatus' = [j \in JobIds |->
                               IF jobStatus[j] = "queued" THEN "discarded"
                               ELSE jobStatus[j]]
       ELSE UNCHANGED << queue, jobStatus >>

Init ==
    /\ pc = "idle"
    /\ via = "none"
    /\ size = 0
    /\ nextId = 0
    /\ workers = <<>>
    /\ result = "none"
    /\ errMsg = <<>>
    /\ pool = <<>>
    /\ callerPanic = "none"
    /\ chanCreated = FALSE
    /\ senderAlive = FALSE
    /\ arcCount = 0
    /\ queue = <<>>
    /\ lockHolder = NoWorker
    /\ poisoned = FALSE
    /\ wstate = [w \in WorkerIds |-> "NotSpawned"]
    /\ wjob = [w \in WorkerIds |-> NoJob]
    /\ wexit = [w \in WorkerIds |-> "none"]
    /\ nJobs = 0
    /\ jobKind = [j \in JobIds |-> "none"]
    /\ jobStatus = [j \in JobIds |-> "none"]
    /\ runs = [j \in JobIds |-> 0]
    /\ counter = 0
    /\ stdout = <<>>

\* ------------------------------------------------------ ThreadPool::build
\* Lines 55-62: the size check, then channel(), Arc::new(Mutex::new(..)),
\* Vec::with_capacity(size).
BuildEntry(sz, caller) ==
    /\ pc = "idle"
    /\ via' = caller
    /\ size' = sz
    /\ IF InvalidSize(sz)
       THEN /\ pc' = "returned"
            /\ result' = "Err"
            /\ errMsg' = InvalidSizeMsg
            /\ callerPanic' = IF caller = "new" THEN "new-unwrap" ELSE "none"
            /\ UNCHANGED << chanCreated, senderAlive, arcCount >>
       ELSE /\ pc' = "building"
            /\ chanCreated' = TRUE
            /\ senderAlive' = TRUE
            /\ arcCount' = 1
            /\ UNCHANGED << result, errMsg, callerPanic >>
    /\ nextId' = FirstId
    /\ workers' = <<>>
    /\ UNCHANGED << pool, queue, lockHolder, poisoned, wstate, wjob, wexit,
                    nJobs, jobKind, jobStatus, runs, counter, stdout >>

Build(sz) == BuildEntry(sz, "build")

\* ThreadPool::new: build(1).unwrap()
New == BuildEntry(NewSize, "new")

\* One iteration of the for loop in which Worker::new succeeds: the thread
\* is spawned holding its own clone of the Arc, and the Worker is pushed.
SpawnWorker ==
    /\ pc = "building"
    /\ nextId < size
    /\ wstate' = [wstate EXCEPT ![nextId] = "WaitingForLock"]
    /\ arcCount' = arcCount + 1
    /\ workers' = PushWorker(workers, nextId)
    /\ nextId' = nextId + 1
    /\ UNCHANGED << pc, via, size, result, errMsg, pool, callerPanic,
                    chanCreated, senderAlive, queue, lockHolder, poisoned,
                    wjob, wexit, nJobs, jobKind, jobStatus, runs, counter,
                    stdout >>

\* Variant: the error is recorded but the loop goes on to the next id.
SpawnFails_NoReturn(e) ==
    /\ pc = "building"
    /\ nextId < size
    /\ result' = "Err"
    /\ errMsg' = SpawnFailureMsg(nextId, e)
    /\ nextId' = nextId + 1
    /\ UNCHANGED << pc, via, size, workers, pool, callerPanic, chanCreated,
                    senderAlive, arcCount, queue, lockHolder, poisoned,
                    wstate, wjob, wexit, nJobs, jobKind, jobStatus, runs,
                    counter, stdout >>

\* One iteration in which builder.spawn fails with e: the closure (and its
\* Arc clone) is dropped unrun, build returns Err and its locals are
\* dropped: the Sender, the Vec of JoinHandles (the threads are detached,
\* not stopped) and build's own Arc.
SpawnFails(e) ==
    /\ pc = "building"
    /\ nextId < size
    /\ pc' = "returned"
    /\ result' = "Err"
    /\ errMsg' = SpawnFailureMsg(nextId, e)
    /\ callerPanic' = IF via = "new" THEN "new-unwrap" ELSE "none"
    /\ workers' = <<>>
    /\ senderAlive' = FALSE
    /\ DropArc
    /\ UNCHANGED << via, size, nextId, pool, chanCreated, lockHolder,
                    poisoned, wstate, wjob, wexit, nJobs, jobKind, runs,
                    counter, stdout >>

\* Loop exit: Ok(ThreadPool { workers, sender }); build's Arc is dropped.
BuildReturn ==
    /\ pc = "building"
    /\ nextId = size
    /\ pc' = "returned"
    /\ result' = "Ok"
    /\ pool' = << [workers |-> workers] >>
    /\ DropArc
    /\ UNCHANGED << via, size, nextId, workers, errMsg, callerPanic,
                    chanCreated, senderAlive, lockHolder, poisoned, wstate,
                    wjob, wexit, nJobs, jobKind, runs, counter, stdout >>

\* ---------------------------------------------------- ThreadPool::execute
\* Box::new(f); self.sender.send(job).unwrap().  send succeeds while the
\* Receiver exists and appends to the unbounded buffer; once the Receiver
\* is gone it returns Err(SendError(job)) and the unwrap panics.
execute(kind) ==
    /\ PoolAlive
    /\ callerPanic = "none"
    /\ nJobs < MaxJobs
    /\ ~SendWouldBlock(queue)
    /\ nJobs' = nJobs + 1
    /\ jobKind' = [jobKind EXCEPT ![nJobs + 1] = kind]
    /\ IF ReceiverAlive
       THEN /\ queue' = Append(queue, nJobs + 1)
            /\ jobStatus' = [jobStatus EXCEPT ![nJobs + 1] = "queued"]
            /\ UNCHANGED callerPanic
       ELSE /\ jobStatus' = [jobStatus EXCEPT ![nJobs + 1] = "rejected"]
            /\ callerPanic' = "send-unwrap"
            /\ UNCHANGED queue
    /\ UNCHANGED << pc, via, size, nextId, workers, result, errMsg, pool,
                    chanCreated, senderAlive, arcCount, lockHolder, poisoned,
                    wstate, wjob, wexit, runs, counter, stdout >>

\* The ThreadPool value goes out of scope: the Sender is dropped and the
\* JoinHandles are dropped without join (the threads are detached).
DropPool ==
    /\ PoolAlive
    /\ pool' = <<>>
    /\ senderAlive' = FALSE
    /\ UNCHANGED << pc, via, size, nextId, workers, result, errMsg,
                    callerPanic, chanCreated, arcCount, queue, lockHolder,
                    poisoned, wstate, wjob, wexit, nJobs, jobKind, jobStatus,
                    runs, counter, stdout >>

\* Variant: the Receiver shared without the Mutex, so that lock() never
\* makes a thread wait.
AcquireLock_NoExclusion(w) ==
    /\ wstate[w] = "WaitingForLock"
    /\ ~poisoned
    /\ lockHolder' = w
    /\ wstate' = [wstate EXCEPT ![w] = "WaitingForJob"]
    /\ UNCHANGED << callerVars, jobVars, chanCreated, senderAlive, arcCount,
                    queue, poisoned, wjob, wexit, jobStatus, runs, counter,
                    stdout >>

\* ------------------------------------------- Worker::new, the thread body
\* receiver.lock() on a healthy, free Mutex: the thread now holds the guard
\* and enters recv().
AcquireLock(w) ==
    /\ wstate[w] = "WaitingForLock"
    /\ lockHolder = NoWorker
    /\ ~poisoned
    /\ lockHolder' = w
    /\ wstate' = [wstate EXCEPT ![w] = "WaitingForJob"]
    /\ UNCHANGED << callerVars, jobVars, chanCreated, senderAlive, arcCount,
                    queue, poisoned, wjob, wexit, jobStatus, runs, counter,
                    stdout >>

\* receiver.lock() on a poisoned Mutex returns Err(PoisonError(guard)); the
\* unwrap panics, the guard inside the error is dropped, the thread ends and
\* its Arc clone is dropped.
LockPoisoned(w) ==
    /\ wstate[w] = "WaitingForLock"
    /\ lockHolder = NoWorker
    /\ poisoned
    /\ wstate' = [wstate EXCEPT ![w] = "Terminated"]
    /\ wexit' = [wexit EXCEPT ![w] = "lock-unwrap"]
    /\ DropArc
    /\ UNCHANGED << callerVars, jobVars, chanCreated, senderAlive, lockHolder,
                    poisoned, wjob, runs, counter, stdout >>

\* Variant: the newest buffered job is received instead of the oldest.
Recv_Lifo(w) ==
    /\ wstate[w] = "WaitingForJob"
    /\ lockHolder = w
    /\ queue # <<>>
    /\ wjob' = [wjob EXCEPT ![w] = queue[Len(queue)]]
    /\ queue' = SubSeq(queue, 1, Len(queue) - 1)
    /\ jobStatus' = [jobStatus EXCEPT ![queue[Len(queue)]] = "dequeued"]
    /\ wstate' = [wstate EXCEPT ![w] = "Dequeued"]
    /\ UNCHANGED << callerVars, jobVars, chanCreated, senderAlive, arcCount,
                    lockHolder, poisoned, wexit, runs, counter, stdout >>

\* Variant: the job is read from the buffer but left in it.
Recv_Peek(w) ==
    /\ wstate[w] = "WaitingForJob"
    /\ lockHolder = w
    /\ queue # <<>>
    /\ wjob' = [wjob EXCEPT ![w] = Head(queue)]
    /\ jobStatus' = [jobStatus EXCEPT ![Head(queue)] = "dequeued"]
    /\ wstate' = [wstate EXCEPT ![w] = "Dequeued"]
    /\ UNCHANGED << callerVars, jobVars, chanCreated, senderAlive, arcCount,
                    queue, lockHolder, poisoned, wexit, runs, counter,
                    stdout >>

\* recv() returns Ok(job): the oldest buffered job, also after the Sender
\* is gone.  The guard is a temporary of the let statement and is still
\* held.
Recv(w) ==
    /\ wstate[w] = "WaitingForJob"
    /\ lockHolder = w
    /\ queue # <<>>
    /\ wjob' = [wjob EXCEPT ![w] = Head(queue)]
    /\ queue' = Tail(queue)
    /\ jobStatus' = [jobStatus EXCEPT ![Head(queue)] = "dequeued"]
    /\ wstate' = [wstate EXCEPT ![w] = "Dequeued"]
    /\ UNCHANGED << callerVars, jobVars, chanCreated, senderAlive, arcCount,
                    lockHolder, poisoned, wexit, runs, counter, stdout >>

\* Variant: recv() fails as soon as the Sender is dropped, buffered jobs
\* or not.
RecvDisconnected_Eager(w) ==
    /\ wstate[w] = "WaitingForJob"
    /\ lockHolder = w
    /\ ~senderAlive
    /\ lockHolder' = NoWorker
    /\ poisoned' = TRUE
    /\ wstate' = [wstate EXCEPT ![w] = "Terminated"]
    /\ wexit' = [wexit EXCEPT ![w] = "recv-unwrap"]
    /\ DropArc
    /\ UNCHANGED << callerVars, jobVars, chanCreated, senderAlive, wjob, runs,
                    counter, stdout >>

\* recv() returns Err(RecvError): buffer empty and the Sender dropped.  The
\* unwrap panics while the guard is alive, so dropping the guard during
\* unwinding poisons the Mutex.
RecvDisconnected(w) ==
    /\ wstate[w] = "WaitingForJob"
    /\ lockHolder = w
    /\ queue = <<>>
    /\ ~senderAlive
    /\ lockHolder' = NoWorker
    /\ poisoned' = TRUE
    /\ wstate' = [wstate EXCEPT ![w] = "Terminated"]
    /\ wexit' = [wexit EXCEPT ![w] = "recv-unwrap"]
    /\ DropArc
    /\ UNCHANGED << callerVars, jobVars, chanCreated, senderAlive, wjob, runs,
                    counter, stdout >>

\* Variant: the guard bound to a local, so that it lives to the end of the
\* closure and is only released when the thread ends.
LockAfterDequeue_Held(w) == w
\* The lock holder once the let statement (line 17) is complete: the
\* temporary guard is dropped at the semicolon.
LockAfterDequeue(w) == NoWorker

\* End of the let statement, println!, and the call job().
StartJob(w) ==
    /\ wstate[w] = "Dequeued"
    /\ lockHolder = w
    /\ lockHolder' = LockAfterDequeue(w)
    /\ stdout' = Append(stdout, w)
    /\ runs' = [runs EXCEPT ![wjob[w]] = @ + 1]
    /\ jobStatus' = [jobStatus EXCEPT ![wjob[w]] = "running"]
    /\ wstate' = [wstate EXCEPT ![w] = "Executing"]
    /\ UNCHANGED << callerVars, jobVars, chanCreated, senderAlive, arcCount,
                    queue, poisoned, wjob, wexit, counter >>

\* What the end of the thread does to the Mutex: a guard still held is
\* released, and poisons the Mutex if the thread is panicking.
ThreadExitLock(w, panicking) ==
    /\ lockHolder' = IF lockHolder = w THEN NoWorker ELSE lockHolder
    /\ poisoned' = (poisoned \/ (panicking /\ lockHolder = w))

\* Variant: the thread body wrapped in a loop, so that a worker goes back
\* to lock() when its job has returned.
JobReturns_Loop(w) ==
    /\ wstate[w] = "Executing"
    /\ jobKind[wjob[w]] = "returns"
    /\ counter' = counter + 1
    /\ wstate' = [wstate EXCEPT ![w] = "WaitingForLock"]
    /\ jobStatus' = [jobStatus EXCEPT ![wjob[w]] = "returned"]
    /\ UNCHANGED << callerVars, jobVars, chanCreated, senderAlive, arcCount,
                    queue, lockHolder, poisoned, wjob, wexit, runs, stdout >>

\* job() returns: the closure ends, the thread ends, its Arc is dropped.
JobReturns(w) ==
    /\ wstate[w] = "Executing"
    /\ jobKind[wjob[w]] = "returns"
    /\ counter' = counter + 1
    /\ wstate' = [wstate EXCEPT ![w] = "Terminated"]
    /\ wexit' = [wexit EXCEPT ![w] = "returned"]
    /\ ThreadExitLock(w, FALSE)
    /\ arcCount' = arcCount - 1
    /\ IF arcCount = 1
       THEN /\ queue' = <<>>
            /\ jobStatus' = [j \in JobIds |->
                               IF j = wjob[w] THEN "returned"
                               ELSE IF jobStatus[j] = "queued" THEN "discarded"
                               ELSE jobStatus[j]]
       ELSE /\ queue' = queue
            /\ jobStatus' = [jobStatus EXCEPT ![wjob[w]] = "returned"]
    /\ UNCHANGED << callerVars, jobVars, chanCreated, senderAlive, wjob, runs,
                    stdout >>

\* job() panics: nothing catches it, the thread unwinds and ends.
JobPanics(w) ==
    /\ wstate[w] = "Executing"
    /\ jobKind[wjob[w]] = "panics"
    /\ wstate' = [wstate EXCEPT ![w] = "Terminated"]
    /\ wexit' = [wexit EXCEPT ![w] = "job-panic"]
    /\ ThreadExitLock(w, TRUE)
    /\ arcCount' = arcCount - 1
    /\ IF arcCount = 1
       THEN /\ queue' = <<>>
            /\ jobStatus' = [j \in JobIds |->
                               IF j = wjob[w] THEN "panicked"
                               ELSE IF jobStatus[j] = "queued" THEN "discarded"
                               ELSE jobStatus[j]]
       ELSE /\ queue' = queue
            /\ jobStatus' = [jobStatus EXCEPT ![wjob[w]] = "panicked"]
    /\ UNCHANGED << callerVars, jobVars, chanCreated, senderAlive, wjob, runs,
                    counter, stdout >>

WorkerStep(w) ==
    \/ AcquireLock(w)
    \/ LockPoisoned(w)
    \/ Recv(w)
    \/ RecvDisconnected(w)
    \/ StartJob(w)
    \/ JobReturns(w)
    \/ JobPanics(w)

BuildStep ==
    \/ SpawnWorker
    \/ BuildReturn

Next ==
    \/ \E sz \in 0 .. MaxSize : Build(sz)
    \/ New
    \/ SpawnWorker
    \/ \E e \in IoErrors : SpawnFails(e)
    \/ BuildReturn
    \/ \E kind \in JobKinds : execute(kind)
    \/ DropPool
    \/ \E w \in WorkerIds : AcquireLock(w)
    \/ \E w \in WorkerIds : LockPoisoned(w)
    \/ \E w \in WorkerIds : Recv(w)
    \/ \E w \in WorkerIds : RecvDisconnected(w)
    \/ \E w \in WorkerIds : StartJob(w)
    \/ \E w \in WorkerIds : JobReturns(w)
    \/ \E w \in WorkerIds : JobPanics(w)

Spec == Init /\ [][Next]_vars

\* The threads are OS threads that run in parallel, and build runs to its
\* return: every thread step and every build step that stays enabled is
\* eventually taken.  Nothing obliges the caller to call execute or to drop
\* the pool, and a spawn is not obliged to fail.
FairSpec ==
    /\ Spec
    /\ WF_vars(BuildStep)
    /\ \A w \in WorkerIds : WF_vars(WorkerStep(w))

\* The steps of a thread up to the call of its job: lock(), recv(), the
\* drop of the guard and println!.  None of them waits for a job to end.
WaitStep(w) ==
    \/ AcquireLock(w)
    \/ LockPoisoned(w)
    \/ Recv(w)
    \/ RecvDisconnected(w)
    \/ StartJob(w)

\* As FairSpec, but a job is not obliged to end: the FnOnce is the
\* caller's code and may run forever.
FairWaitSpec ==
    /\ Spec
    /\ WF_vars(BuildStep)
    /\ \A w \in WorkerIds : WF_vars(WaitStep(w))

\* ------------------------------------------------------------ vocabulary
Spawned(w) == wstate[w] # "NotSpawned"
Alive(w) == wstate[w] \notin {"NotSpawned", "Terminated"}
Finished(j) == jobStatus[j] \in {"returned", "panicked"}
AllReturnKind == \A j \in 1 .. nJobs : jobKind[j] = "returns"

\* ----------------------------------------------------------------- C1
\* C1: in a pool of size n every one of the first n submitted jobs is
\* eventually executed, exactly once and by a worker of its own, none is
\* run twice and none is dropped; when k <= n jobs were submitted and all of
\* them return, the shared counter ends at k.
C1_FirstJobsRunOnce ==
    /\ [](\A j \in JobIds : runs[j] <= 1)
    /\ [](\A v, w \in WorkerIds :
            (v # w /\ wjob[v] # NoJob) => wjob[v] # wjob[w])
    /\ [](\A j \in JobIds : (j <= size /\ j <= nJobs) =>
                               jobStatus[j] \notin {"discarded", "rejected"})
    /\ \A j \in JobIds :
          (jobStatus[j] = "queued" /\ j <= size)
             ~> (Finished(j) /\ runs[j] = 1)
    /\ \A k \in 1 .. MaxSize :
          (nJobs = k /\ k <= size /\ AllReturnKind)
             ~> (counter = k \/ nJobs > k)

C1_Witness ==
    /\ PoolAlive
    /\ size >= 2
    /\ nJobs = size
    /\ counter = size
    /\ \A j \in 1 .. size : runs[j] = 1 /\ jobStatus[j] = "returned"
    /\ \A w \in 0 .. (size - 1) : wjob[w] # NoJob /\ wexit[w] = "returned"

\* ----------------------------------------------------------------- C2
\* C2: every job that execute enqueued is eventually run by a worker,
\* however many jobs are submitted, as long as the queue stays open (the
\* pool, and with it the Sender, is not dropped).
C2_EveryQueuedJobRuns ==
    \A j \in JobIds : (jobStatus[j] = "queued") ~> (runs[j] = 1 \/ ~PoolAlive)

\* ----------------------------------------------------------------- C3
\* C3: build(0) fails with the message "Pool size has to be greater than
\* 0", creates no channel and spawns no thread.
C3_BuildZeroFails ==
    (via # "none" /\ size = 0) =>
        /\ pc = "returned"
        /\ result = "Err"
        /\ errMsg = << <<"text", "Pool size has to be greater than 0">> >>
        /\ ~PoolAlive
        /\ ~chanCreated
        /\ ~senderAlive
        /\ arcCount = 0
        /\ \A w \in WorkerIds : ~Spawned(w)

C3_Witness == via = "build" /\ size = 0 /\ result = "Err"

\* ----------------------------------------------------------------- C4
\* C4: for size >= 1 build fails only through a failed spawn; otherwise the
\* pool holds exactly the workers 0 .. size-1 in creation order, and keeps
\* exactly these for as long as it exists.
C4_WorkersAreZeroToSize ==
    /\ PoolAlive =>
          /\ result = "Ok"
          /\ size >= 1
          /\ Len(pool[1].workers) = size
          /\ \A i \in 1 .. size : pool[1].workers[i] = i - 1
          /\ \A w \in WorkerIds : Spawned(w) <=> w < size
    /\ (pc = "returned" /\ size >= 1 /\ result = "Err") =>
          errMsg[1] = <<"text", "Cannot create pool worker: ">>
    /\ (pc = "returned" /\ size >= 1) => result \in {"Ok", "Err"}

C4_Witness ==
    /\ PoolAlive
    /\ size >= 2
    /\ nJobs >= 2
    /\ \E w \in WorkerIds : wstate[w] = "Terminated"
    /\ \E w \in WorkerIds : wstate[w] = "WaitingForLock"

\* ----------------------------------------------------------------- C5
\* C5: once build has returned, the Receiver exists exactly while some
\* worker thread has not terminated; an execute call made when every worker
\* thread has terminated panics in the caller at the send and leaves the
\* queue alone, and a job is refused only with that panic.
C5_SendFailsAfterAllTerminated ==
    /\ []((pc = "returned") =>
             ((arcCount > 0) <=> \E w \in WorkerIds : Alive(w)))
    /\ [](\A j \in JobIds :
             jobStatus[j] = "rejected" => callerPanic = "send-unwrap")
    /\ [][(nJobs' = nJobs + 1 /\ ~ \E w \in WorkerIds : Alive(w)) =>
             /\ callerPanic' = "send-unwrap"
             /\ jobStatus'[nJobs'] = "rejected"
             /\ queue' = queue
             /\ queue = <<>>]_vars

C5_Witness ==
    /\ PoolAlive
    /\ callerPanic = "send-unwrap"
    /\ jobStatus[nJobs] = "rejected"
    /\ \A w \in 0 .. (size - 1) : wstate[w] = "Terminated"

\* ----------------------------------------------------------------- C6
\* C6: while the pool and the Receiver exist an execute call can always
\* complete, whatever the queue length and whatever the workers are doing.
C6_ExecuteNeverBlocks ==
    (PoolAlive /\ ReceiverAlive /\ nJobs < MaxJobs) =>
        ENABLED (\E kind \in JobKinds :
                    execute(kind) /\ queue' = Append(queue, nJobs + 1))

C6_Witness ==
    /\ PoolAlive
    /\ nJobs < MaxJobs
    /\ Len(queue) >= 2
    /\ \A w \in 0 .. (size - 1) : wstate[w] \in {"Executing", "Terminated"}
    /\ \E w \in WorkerIds : wstate[w] = "Executing"

\* ----------------------------------------------------------------- C7
\* C7: a job that panics ends its own worker only: that worker does not
\* hold the lock, the step neither changes the lock nor poisons it nor
\* touches another worker, and the Mutex is poisoned by a failed recv only.
C7_JobPanicIsLocal ==
    /\ [](poisoned => \E w \in WorkerIds : wexit[w] = "recv-unwrap")
    /\ [][\A w \in WorkerIds :
            (wexit[w] = "none" /\ wexit'[w] = "job-panic") =>
               /\ lockHolder # w
               /\ lockHolder' = lockHolder
               /\ poisoned' = poisoned
               /\ \A v \in WorkerIds \ {w} :
                     wstate'[v] = wstate[v] /\ wexit'[v] = wexit[v]]_vars

C7_Witness ==
    \E w, v \in WorkerIds :
        /\ wexit[w] = "job-panic"
        /\ ~poisoned
        /\ wexit[v] = "returned"
        /\ wjob[v] > wjob[w]

\* ----------------------------------------------------------------- C8
\* C8: when the spawn of worker k fails, build is over with an Err, no
\* ThreadPool exists, and no worker with an id of k or above was spawned.
C8_SpawnFailureAborts ==
    (result = "Err" /\ size >= 1) =>
        /\ pc = "returned"
        /\ ~PoolAlive
        /\ nextId < size
        /\ \A w \in WorkerIds : Spawned(w) <=> w < nextId

C8_Witness ==
    /\ result = "Err"
    /\ size >= 3
    /\ nextId = 1
    /\ Spawned(0)

\* ----------------------------------------------------------------- C9
\* C9 (as stated): the error of a failed spawn names the failed worker's
\* id and gives the underlying failure reason.
C9_MsgNamesWorkerAndReason ==
    (result = "Err" /\ size >= 1) =>
        /\ \E i \in DOMAIN errMsg : errMsg[i] = <<"worker_id", ToString(nextId)>>
        /\ \E i \in DOMAIN errMsg : errMsg[i][1] = "kind"

\* C9 (amended): the error of a failed spawn is the text "Cannot create
\* pool worker: " followed by the debug form of the io::Error (code, kind,
\* message); no part of it identifies the worker.
C9_MsgGivesReasonOnly ==
    (result = "Err" /\ size >= 1) =>
        /\ Len(errMsg) = 5
        /\ errMsg[1] = <<"text", "Cannot create pool worker: ">>
        /\ errMsg[2] = <<"text", "Os">>
        /\ \E e \in IoErrors :
              /\ errMsg[3] = <<"code", ToString(e.code)>>
              /\ errMsg[4] = <<"kind", e.kind>>
              /\ errMsg[5] = <<"message", e.message>>
        /\ \A i \in DOMAIN errMsg : errMsg[i][1] # "worker_id"

C9_Witness ==
    /\ result = "Err"
    /\ nextId >= 1
    /\ Len(errMsg) = 5
    /\ errMsg[3] = <<"code", "11">>
    /\ errMsg[4] = <<"kind", "WouldBlock">>

\* ---------------------------------------------------------------- C10
\* C10: new() behaves as build(1).unwrap(): the size is 1, the zero-size
\* error can not occur, a pool it returns holds the single worker 0 and has
\* its channel, and the caller panics exactly when the spawn failed.
C10_NewIsBuildOne ==
    (via = "new") =>
        /\ size = 1
        /\ errMsg # << <<"text", "Pool size has to be greater than 0">> >>
        /\ chanCreated
        /\ (result = "Err") <=> (callerPanic = "new-unwrap")
        /\ result = "Err" => (~PoolAlive /\ ~Spawned(0))
        /\ result = "Ok" => Spawned(0)
        /\ PoolAlive => pool[1].workers = << 0 >>
        /\ \A w \in WorkerIds \ {0} : ~Spawned(w)

C10_Witness ==
    /\ via = "new"
    /\ PoolAlive
    /\ wexit[0] = "returned"
    /\ counter = 1

\* The workers inside the dequeue critical section: lock() has returned the
\* guard and the guard has not been dropped yet.
InCriticalSection == { w \in WorkerIds : wstate[w] \in {"WaitingForJob", "Dequeued"} }

\* ---------------------------------------------------------------- C11
\* C11: at most one worker is inside the dequeue critical section, it is
\* the one that holds the lock, and every other live worker that has not
\* taken a job is waiting for the lock.
C11_OneWorkerInCriticalSection ==
    /\ Cardinality(InCriticalSection) <= 1
    /\ \A w \in InCriticalSection : lockHolder = w
    /\ \A w \in WorkerIds :
          (Alive(w) /\ wjob[w] = NoJob /\ lockHolder # w) =>
              wstate[w] = "WaitingForLock"

C11_Witness ==
    /\ size >= 3
    /\ wstate[1] = "WaitingForJob"
    /\ lockHolder = 1
    /\ wstate[0] = "WaitingForLock"
    /\ wstate[2] = "WaitingForLock"
    /\ queue = <<>>

\* The jobs still in the channel buffer.
InQueue == { queue[i] : i \in DOMAIN queue }

\* ---------------------------------------------------------------- C12
\* C12: no job is delivered to two workers and none is invoked twice: a
\* job has at most one receiving worker, is out of the buffer once it has
\* one, appears at most once in the buffer, and there are exactly as many
\* invocations as workers that started a job.
C12_NoDuplicateDelivery ==
    /\ \A j \in JobIds :
          /\ runs[j] <= 1
          /\ Cardinality({ w \in WorkerIds : wjob[w] = j }) <= 1
          /\ (\E w \in WorkerIds : wjob[w] = j) => j \notin InQueue
          /\ runs[j] = 1 => \E w \in WorkerIds : wjob[w] = j
    /\ Cardinality(InQueue) = Len(queue)
    /\ Len(stdout) = Cardinality({ j \in JobIds : runs[j] = 1 })

C12_Witness ==
    /\ size >= 2
    /\ wstate[0] = "Executing"
    /\ wstate[1] = "Executing"
    /\ wjob[0] # wjob[1]
    /\ Len(queue) >= 1
    /\ nJobs >= 3

\* ---------------------------------------------------------------- C13
\* C13: the lock is held only inside the dequeue critical section, never
\* by a worker that is executing its job; whenever nobody is inside the
\* critical section a worker waiting for the healthy lock can take it,
\* whatever the executing workers do.
C13_LockReleasedBeforeJob ==
    /\ \A w \in WorkerIds :
          wstate[w] \notin {"WaitingForJob", "Dequeued"} => lockHolder # w
    /\ \A v \in WorkerIds :
          (wstate[v] = "WaitingForLock" /\ ~poisoned /\ InCriticalSection = {})
              => ENABLED AcquireLock(v)

C13_Witness ==
    /\ wstate[0] = "Executing"
    /\ jobStatus[wjob[0]] = "running"
    /\ wstate[1] = "Dequeued"
    /\ lockHolder = 1
    /\ wjob[1] > wjob[0]

\* The position of a state of the thread in the thread body (lines 16-22).
StateRank(s) ==
    CASE s = "NotSpawned" -> 0
      [] s = "WaitingForLock" -> 1
      [] s = "WaitingForJob" -> 2
      [] s = "Dequeued" -> 3
      [] s = "Executing" -> 4
      [] s = "Terminated" -> 5

\* The number of jobs worker w has started.
Started(w) == Cardinality({ i \in DOMAIN stdout : stdout[i] = w })

\* ---------------------------------------------------------------- C14
\* C14: a worker thread only moves forward: it starts in WaitingForLock,
\* never goes back to an earlier state, leaves Executing only for
\* Terminated, which is where the return of its job takes it, never
\* changes the job it received, and starts at most one job.
C14_WorkerMovesForward ==
    /\ [](\A w \in WorkerIds :
             /\ Started(w) <= 1
             /\ Started(w) = 1 <=> wstate[w] \in {"Executing", "Terminated"}
                                     /\ wjob[w] # NoJob)
    /\ [][\A w \in WorkerIds :
             /\ StateRank(wstate'[w]) >= StateRank(wstate[w])
             /\ (wstate[w] = "NotSpawned" /\ wstate'[w] # "NotSpawned")
                   => wstate'[w] = "WaitingForLock"
             /\ (wstate[w] = "Executing" /\ wstate'[w] # "Executing")
                   => wstate'[w] = "Terminated"
             /\ (wjob[w] # NoJob /\ jobStatus[wjob[w]] = "running"
                   /\ jobStatus'[wjob[w]] = "returned")
                   => wstate'[w] = "Terminated"
             /\ wjob[w] # NoJob => wjob'[w] = wjob[w]]_vars

C14_Witness ==
    /\ wexit[0] = "returned"
    /\ Started(0) = 1
    /\ wstate[1] = "Executing"
    /\ Len(queue) >= 1

\* Every worker of the returned pool has received its job.
AllDequeued ==
    /\ result = "Ok"
    /\ \A w \in 0 .. (size - 1) : wjob[w] # NoJob

\* The states of a job that no worker has received.
Undelivered == {"none", "queued", "discarded", "rejected"}

\* ---------------------------------------------------------------- C15
\* C15: once all n workers of a pool have received their job, no further
\* job, queued already or submitted later, is ever received or run; a pool
\* of size n runs at most n jobs, and never one submitted after the n-th.
C15_AtMostSizeJobsRun ==
    /\ [](Cardinality({ j \in JobIds : runs[j] >= 1 }) <= size)
    /\ [](\A j \in JobIds :
             j > size => (runs[j] = 0 /\ jobStatus[j] \in Undelivered))
    /\ [][AllDequeued =>
             /\ AllDequeued'
             /\ \A j \in JobIds :
                   jobStatus[j] \in Undelivered =>
                      (jobStatus'[j] \in Undelivered /\ runs'[j] = 0)]_vars

C15_Witness ==
    /\ PoolAlive
    /\ size >= 2
    /\ AllDequeued
    /\ nJobs > size
    /\ jobStatus[size + 1] = "queued"
    /\ \E w \in WorkerIds : wstate[w] = "Executing"
    /\ \E w \in WorkerIds : wstate[w] = "Terminated"

\* The states of a job that a worker has received.
Delivered == {"dequeued", "running", "returned", "panicked"}

SenderGone == chanCreated /\ ~senderAlive

\* The thread is blocked in lock() or in recv().
Waiting(w) == wstate[w] \in {"WaitingForLock", "WaitingForJob"}

\* ---------------------------------------------------------------- C17
\* C17: once the Sender is gone no worker stays blocked in lock() or
\* recv(), even if jobs never end: with the buffer empty the worker in
\* recv() panics holding the lock and poisons it, each worker waiting for
\* the poisoned lock panics when it gets it, and all of them terminate
\* without having received a job.
C17_NoWorkerBlockedForever ==
    /\ \A w \in WorkerIds : (SenderGone /\ Waiting(w)) ~> ~Waiting(w)
    /\ \A w \in WorkerIds :
          (SenderGone /\ queue = <<>> /\ Waiting(w))
             ~> (/\ wstate[w] = "Terminated"
                 /\ wexit[w] \in {"recv-unwrap", "lock-unwrap"}
                 /\ wjob[w] = NoJob)
    /\ \A w \in WorkerIds :
          (poisoned /\ wstate[w] = "WaitingForLock") ~> (wexit[w] = "lock-unwrap")
    /\ [][\A w \in WorkerIds :
             /\ (wexit[w] = "none" /\ wexit'[w] = "recv-unwrap") =>
                   /\ SenderGone /\ queue = <<>>
                   /\ lockHolder = w /\ lockHolder' = NoWorker
                   /\ poisoned'
             /\ (wexit[w] = "none" /\ wexit'[w] = "lock-unwrap") =>
                   /\ poisoned /\ wstate[w] = "WaitingForLock"
                   /\ wjob[w] = NoJob]_vars

C17_Witness ==
    /\ result = "Err"
    /\ SenderGone
    /\ poisoned
    /\ \E w, v \in WorkerIds :
          /\ wexit[w] = "recv-unwrap"
          /\ wexit[v] = "lock-unwrap"
    /\ \A w \in WorkerIds : Spawned(w) => wstate[w] = "Terminated"

\* The number of buffered jobs up to and including j.
PlaceInQueue(j) == Cardinality({ i \in InQueue : i <= j })

\* ---------------------------------------------------------------- C18
\* C18: a thread ends without having received a job only when the buffer
\* is empty and the Sender is gone; the lock is not poisoned while a job is
\* buffered; a buffered job with at least as many blocked workers as jobs
\* up to it in the buffer is eventually run, the pool dropped or not.
C18_QueuedJobsSurviveDrop ==
    /\ [](poisoned => (queue = <<>> /\ SenderGone))
    /\ [][\A w \in WorkerIds :
             (wexit[w] = "none" /\ wexit'[w] # "none" /\ wjob[w] = NoJob) =>
                (queue = <<>> /\ SenderGone)]_vars
    /\ \A j \in JobIds :
          (/\ jobStatus[j] = "queued"
           /\ PlaceInQueue(j) <= Cardinality({ w \in WorkerIds : Waiting(w) }))
             ~> (runs[j] = 1)

C18_Witness ==
    /\ SenderGone
    /\ result = "Ok"
    /\ Len(queue) >= 2
    /\ ~poisoned
    /\ Cardinality({ w \in WorkerIds : Waiting(w) }) >= 2
    /\ \E w \in WorkerIds : wstate[w] = "Executing"

\* ---------------------------------------------------------------- C19
\* C19: an execute call fails exactly when no worker thread is alive; made
\* while a thread is alive, even when every worker already has its job, it
\* returns without error and the job is appended; such a job is never run
\* and leaves the queue only by being discarded, in the step in which the
\* last live thread ends.
C19_ExecuteFailsOnlyWhenAllTerminated ==
    /\ [](callerPanic = "send-unwrap" => \A w \in WorkerIds : ~Alive(w))
    /\ [](\A j \in JobIds :
             jobStatus[j] = "discarded" =>
                (runs[j] = 0 /\ \A w \in WorkerIds : ~Alive(w)))
    /\ []((pc = "returned" /\ \A w \in WorkerIds : ~Alive(w)) =>
             (queue = <<>> /\ \A j \in JobIds : jobStatus[j] # "queued"))
    /\ [][nJobs' = nJobs + 1 =>
             IF \E w \in WorkerIds : Alive(w)
             THEN /\ callerPanic' = "none"
                  /\ jobStatus'[nJobs'] = "queued"
                  /\ queue' = Append(queue, nJobs')
             ELSE /\ callerPanic' = "send-unwrap"
                  /\ jobStatus'[nJobs'] = "rejected"]_vars
    /\ [][\A j \in JobIds :
             (jobStatus[j] = "queued" /\ jobStatus'[j] = "discarded") =>
                /\ Cardinality({ w \in WorkerIds : Alive(w) }) = 1
                /\ \A w \in WorkerIds : wstate'[w] \in {"NotSpawned", "Terminated"}]_vars

C19_Witness ==
    /\ PoolAlive
    /\ callerPanic = "none"
    /\ AllDequeued
    /\ nJobs > size
    /\ jobStatus[nJobs] = "discarded"
    /\ runs[nJobs] = 0
    /\ \A w \in 0 .. (size - 1) : wstate[w] = "Terminated"

====
